---- MODULE Spec2Model ----
\* Model of infra/cifuzz/clusterfuzz_deployment.py: the two ClusterFuzz
\* deployments (ClusterFuzzLite, OSSFuzz), the factory that picks one, the
\* local directories they create and the remote calls they make.
\*
\* Strings are sequences of one-character strings, so that prefix tests and
\* joins are computed character by character as Python computes them.
EXTENDS Integers, Sequences, FiniteSets, TLC

\* ---------------------------------------------------------------- bounds
MaxCalls == 2

\* ------------------------------------------------------ string constants
CORPUS_DIR_NAME ==
  <<"c", "i", "f", "u", "z", "z", "-", "c", "o", "r", "p", "u", "s">>
BUILD_DIR_NAME ==
  <<"c", "i", "f", "u", "z", "z", "-", "l", "a", "t", "e", "s", "t", "-",
    "b", "u", "i", "l", "d">>
BASE_BUILD_NAME ==
  <<"c", "i", "f", "u", "z", "z", "-", "b", "u", "i", "l", "d", "-">>
CLUSTERFUZZ_BUILDS ==
  <<"c", "l", "u", "s", "t", "e", "r", "f", "u", "z", "z", "-",
    "b", "u", "i", "l", "d", "s">>
CORPUS_ZIP_NAME ==
  <<"p", "u", "b", "l", "i", "c", ".", "z", "i", "p">>
\* '{project_name}-{sanitizer}-latest.version'
VERSION_STRING(project_name, sanitizer) ==
  project_name \o <<"-">> \o sanitizer \o
  <<"-", "l", "a", "t", "e", "s", "t", ".", "v", "e", "r", "s", "i", "o", "n">>
\* '{0}-backup.clusterfuzz-external.appspot.com/corpus/libFuzzer/'
BackupBucket(project_name) ==
  project_name \o
  <<"-", "b", "a", "c", "k", "u", "p", ".", "c", "l", "u", "s", "t", "e", "r",
    "f", "u", "z", "z", "-", "e", "x", "t", "e", "r", "n", "a", "l", ".",
    "a", "p", "p", "s", "p", "o", "t", ".", "c", "o", "m", "/",
    "c", "o", "r", "p", "u", "s", "/",
    "l", "i", "b", "F", "u", "z", "z", "e", "r", "/">>
\* utils.GCS_BASE_URL
GCS_BASE_URL ==
  <<"h", "t", "t", "p", "s", ":", "/", "/", "s", "t", "o", "r", "a", "g", "e",
    ".", "g", "o", "o", "g", "l", "e", "a", "p", "i", "s", ".", "c", "o", "m",
    "/">>

\* ------------------------------------------------------------ input sets
\* config.Platform: the two values the factory names, and two others.
InternalPlatforms == {"INTERNAL_GENERIC_CI", "INTERNAL_GITHUB"}
Platforms == InternalPlatforms \cup {"EXTERNAL_GENERIC_CI", "EXTERNAL_GITHUB"}
ProjectNames == {<<"a">>, <<"a", "_">>}
Sanitizers == {<<"a", "d", "d", "r", "e", "s", "s">>}
ParentDirs == {<<"/", "w">>, <<"/", "x">>}
\* Fuzz target names: with and without a project's prefix.
TargetNames ==
  {<<"a">>, <<"_">>, <<"a", "_">>, <<"a", "_", "a">>, <<"a", "_", "_">>}
\* The bytes a version file can hold: nothing, a build name, or a byte
\* that is not UTF-8 (written "xFF").
VersionBodies == {<<>>, <<"v">>, <<"xFF">>}
\* What urlopen can do: raise HTTPError, raise another error, or respond.
UrlopenErrors == {"HTTPError", "URLError"}

\* ------------------------------------------------------- string helpers
\* str.startswith
StartsWith(s, prefix) ==
  /\ Len(prefix) <= Len(s)
  /\ SubSeq(s, 1, Len(prefix)) = prefix

\* posixpath.join of two parts
PosixJoin2(path, b) ==
  IF StartsWith(b, <<"/">>) THEN b
  ELSE IF path = <<>> \/ path[Len(path)] = "/" THEN path \o b
  ELSE path \o <<"/">> \o b

RECURSIVE JoinFrom(_, _)
JoinFrom(path, rest) ==
  IF rest = <<>> THEN path
  ELSE JoinFrom(PosixJoin2(path, Head(rest)), Tail(rest))

\* os.path.join(*parts)
PathJoin(parts) == JoinFrom(Head(parts), Tail(parts))

\* utils.url_join(*url_parts): the POSIX join of the parts
url_join(url_parts) == JoinFrom(Head(url_parts), Tail(url_parts))

\* ------------------------------------------------------- Python values
NoneV == [tag |-> "None", s |-> <<>>]
StrV(s) == [tag |-> "str", s |-> s]
BoolV(b) == [tag |-> IF b THEN "True" ELSE "False", s |-> <<>>]
ExcV(name) == [tag |-> name, s |-> <<>>]
BytesV(b) == [tag |-> "bytes", s |-> b]

\* How a method call ended: it returned value, or raised it.
Returned(value) == [outcome |-> "returned", value |-> value]
Raised(value) == [outcome |-> "raised", value |-> value]

\* bytes.decode(): UTF-8 bytes decode to their text, others raise.
decode(b) ==
  IF \A i \in 1..Len(b) : b[i] # "xFF"
  THEN Returned(StrV(b))
  ELSE Raised(ExcV("UnicodeDecodeError"))

\* Variant: a test for 'is not None' in place of truthiness.
TruthyNotNone(v) == v.tag # "None"

\* Python truthiness of the values used here
Truthy(v) ==
  \/ v.tag = "True"
  \/ v.tag = "str" /\ v.s # <<>>

\* ---------------------------------------------------------------- state
VARIABLES
  config,      \* the configuration: platform, project_name, sanitizer
  deployment,  \* class of the deployment object, "none" before the factory ran
  fs,          \* the directories that exist
  remote_log,  \* the remote calls made so far, in order, with their results
  call_log     \* the deployment methods called so far, with their outcomes

vars == <<config, deployment, fs, remote_log, call_log>>

Call(op, target, dir, outcome, value) ==
  [op |-> op, target |-> target, dir |-> dir,
   outcome |-> outcome, value |-> value]

Remote(op, name, dir, result) ==
  [op |-> op, name |-> name, dir |-> dir, result |-> result]

\* ------------------------------------------------------------ PathLayout
get_corpus_dir(target_name, parent_dir) ==
  PathJoin(<<parent_dir, CORPUS_DIR_NAME, target_name>>)

get_build_dir(parent_dir) ==
  PathJoin(<<parent_dir, BUILD_DIR_NAME>>)

\* ------------------------------------------------------------ filesystem
\* Variant without the existing-directory shortcut.
ExistsNever(path) == FALSE

\* os.path.exists
Exists(path) == path \in fs

\* os.makedirs(path, exist_ok=True): the directory and every missing
\* intermediate directory exist afterwards.
makedirs(path) ==
  fs \cup {path}
     \cup {SubSeq(path, 1, i - 1) : i \in {j \in 2..Len(path) : path[j] = "/"}}

\* --------------------------------------------------------------- factory
\* Variant that tests one of the two internal platforms only.
get_clusterfuzz_deployment_github_only(cfg) ==
  IF cfg.platform = "INTERNAL_GITHUB" THEN "OSSFuzz" ELSE "ClusterFuzzLite"

get_clusterfuzz_deployment(cfg) ==
  IF \/ cfg.platform = "INTERNAL_GENERIC_CI"
     \/ cfg.platform = "INTERNAL_GITHUB"
  THEN "OSSFuzz"
  ELSE "ClusterFuzzLite"

GetClusterfuzzDeployment ==
  /\ deployment = "none"
  /\ deployment' = get_clusterfuzz_deployment(config)
  /\ UNCHANGED <<config, fs, remote_log, call_log>>

\* ------------------------------------------------------- ClusterFuzzLite
get_build_name(cfg) == BASE_BUILD_NAME \o cfg.sanitizer

get_corpus_name(target_name) ==
  <<"c", "o", "r", "p", "u", "s", "-">> \o target_name

LiteDownloadLatestBuild(parent_dir) ==
  LET build_dir == get_build_dir(parent_dir) IN
  /\ deployment = "ClusterFuzzLite"
  /\ Len(call_log) < MaxCalls
  /\ IF Exists(build_dir)
     THEN /\ call_log' = Append(call_log,
               Call("download_latest_build", <<>>, parent_dir,
                    "returned", StrV(build_dir)))
          /\ UNCHANGED <<fs, remote_log>>
     ELSE \E ok \in BOOLEAN :
          /\ fs' = makedirs(build_dir)
          /\ remote_log' = Append(remote_log,
               Remote("filestore.download_latest_build",
                      get_build_name(config), build_dir, BoolV(ok)))
          /\ call_log' = Append(call_log,
               Call("download_latest_build", <<>>, parent_dir, "returned",
                    IF Truthy(BoolV(ok)) THEN StrV(build_dir) ELSE NoneV))
  /\ UNCHANGED <<config, deployment>>

\* Variant that logs the filestore's error without raising it again.
LiteDownloadCorpusSwallowing(target_name, parent_dir) ==
  LET corpus_dir == get_corpus_dir(target_name, parent_dir) IN
  /\ deployment = "ClusterFuzzLite"
  /\ Len(call_log) < MaxCalls
  /\ fs' = makedirs(corpus_dir)
  /\ \E raises \in BOOLEAN :
       remote_log' = Append(remote_log,
         Remote("filestore.download_corpus", get_corpus_name(target_name),
                corpus_dir,
                IF raises THEN ExcV("Exception") ELSE NoneV))
  /\ call_log' = Append(call_log,
       Call("download_corpus", target_name, parent_dir,
            "returned", StrV(corpus_dir)))
  /\ UNCHANGED <<config, deployment>>

LiteDownloadCorpus(target_name, parent_dir) ==
  LET corpus_dir == get_corpus_dir(target_name, parent_dir) IN
  /\ deployment = "ClusterFuzzLite"
  /\ Len(call_log) < MaxCalls
  /\ fs' = makedirs(corpus_dir)
  /\ \E raises \in BOOLEAN :
       /\ remote_log' = Append(remote_log,
            Remote("filestore.download_corpus", get_corpus_name(target_name),
                   corpus_dir,
                   IF raises THEN ExcV("Exception") ELSE NoneV))
       /\ call_log' = Append(call_log,
            IF raises
            THEN Call("download_corpus", target_name, parent_dir,
                      "raised", ExcV("Exception"))
            ELSE Call("download_corpus", target_name, parent_dir,
                      "returned", StrV(corpus_dir)))
  /\ UNCHANGED <<config, deployment>>

LiteUploadCorpus(target_name, corpus_dir) ==
  /\ deployment = "ClusterFuzzLite"
  /\ Len(call_log) < MaxCalls
  /\ \E raises \in BOOLEAN :
       remote_log' = Append(remote_log,
         Remote("filestore.upload_corpus", get_corpus_name(target_name),
                corpus_dir,
                IF raises THEN ExcV("Exception") ELSE NoneV))
  /\ call_log' = Append(call_log,
       Call("upload_corpus", target_name, corpus_dir, "returned", NoneV))
  /\ UNCHANGED <<config, deployment, fs>>

LiteUploadLatestBuild(build_dir) ==
  /\ deployment = "ClusterFuzzLite"
  /\ Len(call_log) < MaxCalls
  /\ \E ok \in BOOLEAN :
       /\ remote_log' = Append(remote_log,
            Remote("filestore.upload_latest_build", get_build_name(config),
                   build_dir, BoolV(ok)))
       /\ call_log' = Append(call_log,
            Call("upload_latest_build", <<>>, build_dir,
                 "returned", BoolV(ok)))
  /\ UNCHANGED <<config, deployment, fs>>

\* --------------------------------------------------------------- OSSFuzz
\* The methods each class body defines.
ClassMethods ==
  [BaseClusterFuzzDeployment |->
     {"download_latest_build", "upload_latest_build", "download_corpus",
      "get_corpus_dir", "get_build_dir"},
   ClusterFuzzLite |->
     {"download_latest_build", "download_corpus", "_get_build_name",
      "_get_corpus_name", "upload_corpus", "upload_latest_build"},
   OSSFuzz |->
     {"get_latest_build_name", "download_latest_build",
      "upload_latest_build", "download_corpus"}]

\* Attribute lookup on an instance of cls: its own class, then the base.
HasMethod(cls, name) ==
  name \in ClassMethods[cls] \cup ClassMethods.BaseClusterFuzzDeployment

\* The version file's URL.
version_url(cfg) ==
  url_join(<<GCS_BASE_URL, CLUSTERFUZZ_BUILDS, cfg.project_name,
             VERSION_STRING(cfg.project_name, cfg.sanitizer)>>)

\* What urlopen(version_url) can do.
UrlopenResponses ==
  {ExcV(e) : e \in UrlopenErrors} \cup {BytesV(b) : b \in VersionBodies}

\* get_latest_build_name, given what urlopen did: response is the error it
\* raised or the bytes it returned. Only HTTPError is caught.
get_latest_build_name(response) ==
  IF response.tag = "HTTPError" THEN Returned(NoneV)
  ELSE IF response.tag = "bytes" THEN decode(response.s)
  ELSE Raised(response)

\* A call of the public method get_latest_build_name on its own.
OSSFuzzGetLatestBuildName ==
  /\ deployment = "OSSFuzz"
  /\ Len(call_log) < MaxCalls
  /\ \E response \in UrlopenResponses :
       LET r == get_latest_build_name(response) IN
       /\ remote_log' = Append(remote_log,
            Remote("urlopen", version_url(config), <<>>, response))
       /\ call_log' = Append(call_log,
            Call("get_latest_build_name", <<>>, <<>>, r.outcome, r.value))
  /\ UNCHANGED <<config, deployment, fs>>

oss_fuzz_build_url(cfg, latest_build_name) ==
  url_join(<<GCS_BASE_URL, CLUSTERFUZZ_BUILDS, cfg.project_name,
             latest_build_name>>)

OSSFuzzDownloadLatestBuild(parent_dir) ==
  LET build_dir == get_build_dir(parent_dir) IN
  /\ deployment = "OSSFuzz"
  /\ Len(call_log) < MaxCalls
  /\ IF Exists(build_dir)
     THEN /\ call_log' = Append(call_log,
               Call("download_latest_build", <<>>, parent_dir,
                    "returned", StrV(build_dir)))
          /\ UNCHANGED <<fs, remote_log>>
     ELSE \E response \in UrlopenResponses :
          LET latest_build_name == get_latest_build_name(response)
              fetched == Append(remote_log,
                Remote("urlopen", version_url(config), <<>>, response))
          IN
          /\ fs' = makedirs(build_dir)
          /\ IF latest_build_name.outcome = "raised"
             THEN /\ remote_log' = fetched
                  /\ call_log' = Append(call_log,
                       Call("download_latest_build", <<>>, parent_dir,
                            "raised", latest_build_name.value))
             ELSE IF ~Truthy(latest_build_name.value)
             THEN /\ remote_log' = fetched
                  /\ call_log' = Append(call_log,
                       Call("download_latest_build", <<>>, parent_dir,
                            "returned", NoneV))
             ELSE \E ok \in BOOLEAN :
                  /\ remote_log' = Append(fetched,
                       Remote("download_and_unpack_zip",
                              oss_fuzz_build_url(config,
                                                 latest_build_name.value.s),
                              build_dir, BoolV(ok)))
                  /\ call_log' = Append(call_log,
                       Call("download_latest_build", <<>>, parent_dir,
                            "returned",
                            IF Truthy(BoolV(ok)) THEN StrV(build_dir)
                            ELSE NoneV))
  /\ UNCHANGED <<config, deployment>>

\* Variant that uploads through a remote call instead of raising at once.
OSSFuzzUploadLatestBuildRemote(build_dir) ==
  /\ deployment = "OSSFuzz"
  /\ Len(call_log) < MaxCalls
  /\ remote_log' = Append(remote_log,
       Remote("filestore.upload_latest_build", get_build_name(config),
              build_dir, BoolV(FALSE)))
  /\ call_log' = Append(call_log,
       Call("upload_latest_build", <<>>, build_dir,
            "raised", ExcV("Exception")))
  /\ UNCHANGED <<config, deployment, fs>>

OSSFuzzUploadLatestBuild(build_dir) ==
  /\ deployment = "OSSFuzz"
  /\ Len(call_log) < MaxCalls
  /\ call_log' = Append(call_log,
       Call("upload_latest_build", <<>>, build_dir,
            "raised", ExcV("Exception")))
  /\ UNCHANGED <<config, deployment, fs, remote_log>>

\* Variant that prefixes the project name unconditionally.
project_qualified_always_prefixed(project_name, target_name) ==
  project_name \o <<"_">> \o target_name

\* The name of the corpus of target_name in the project's backup bucket.
project_qualified_fuzz_target_name(project_name, target_name) ==
  LET qualified_name_prefix == project_name \o <<"_">> IN
  IF ~StartsWith(target_name, qualified_name_prefix)
  THEN qualified_name_prefix \o target_name
  ELSE target_name

corpus_url(cfg, target_name) ==
  url_join(<<GCS_BASE_URL, BackupBucket(cfg.project_name),
             project_qualified_fuzz_target_name(cfg.project_name, target_name),
             CORPUS_ZIP_NAME>>)

\* Variant that returns None when the fetch reports failure.
OSSFuzzDownloadCorpusChecked(target_name, parent_dir) ==
  LET corpus_dir == get_corpus_dir(target_name, parent_dir) IN
  /\ deployment = "OSSFuzz"
  /\ Len(call_log) < MaxCalls
  /\ fs' = makedirs(corpus_dir)
  /\ \E ok \in BOOLEAN :
       /\ remote_log' = Append(remote_log,
            Remote("download_and_unpack_zip", corpus_url(config, target_name),
                   corpus_dir, BoolV(ok)))
       /\ call_log' = Append(call_log,
            Call("download_corpus", target_name, parent_dir, "returned",
                 IF ok THEN StrV(corpus_dir) ELSE NoneV))
  /\ UNCHANGED <<config, deployment>>

\* Variant with the build download's existing-directory shortcut.
OSSFuzzDownloadCorpusCached(target_name, parent_dir) ==
  LET corpus_dir == get_corpus_dir(target_name, parent_dir) IN
  /\ deployment = "OSSFuzz"
  /\ Len(call_log) < MaxCalls
  /\ IF corpus_dir \in fs
     THEN UNCHANGED <<fs, remote_log>>
     ELSE /\ fs' = makedirs(corpus_dir)
          /\ \E ok \in BOOLEAN :
               remote_log' = Append(remote_log,
                 Remote("download_and_unpack_zip",
                        corpus_url(config, target_name), corpus_dir, BoolV(ok)))
  /\ call_log' = Append(call_log,
       Call("download_corpus", target_name, parent_dir,
            "returned", StrV(corpus_dir)))
  /\ UNCHANGED <<config, deployment>>

OSSFuzzDownloadCorpus(target_name, parent_dir) ==
  LET corpus_dir == get_corpus_dir(target_name, parent_dir) IN
  /\ deployment = "OSSFuzz"
  /\ Len(call_log) < MaxCalls
  /\ fs' = makedirs(corpus_dir)
  /\ \E ok \in BOOLEAN :
       remote_log' = Append(remote_log,
         Remote("download_and_unpack_zip", corpus_url(config, target_name),
                corpus_dir, BoolV(ok)))
  /\ call_log' = Append(call_log,
       Call("download_corpus", target_name, parent_dir,
            "returned", StrV(corpus_dir)))
  /\ UNCHANGED <<config, deployment>>

\* upload_corpus called on an OSSFuzz instance: neither OSSFuzz nor the base
\* class defines it, so the attribute lookup raises.
OSSFuzzUploadCorpus(target_name, corpus_dir) ==
  /\ deployment = "OSSFuzz"
  /\ Len(call_log) < MaxCalls
  /\ ~HasMethod("OSSFuzz", "upload_corpus")
  /\ call_log' = Append(call_log,
       Call("upload_corpus", target_name, corpus_dir,
            "raised", ExcV("AttributeError")))
  /\ UNCHANGED <<config, deployment, fs, remote_log>>

\* --------------------------------------------------------- specification
Init ==
  /\ config \in [platform : Platforms, project_name : ProjectNames,
                 sanitizer : Sanitizers]
  /\ deployment = "none"
  /\ fs = ParentDirs
  /\ remote_log = <<>>
  /\ call_log = <<>>

Next ==
  \/ GetClusterfuzzDeployment
  \/ \E parent_dir \in ParentDirs : LiteDownloadLatestBuild(parent_dir)
  \/ \E target_name \in TargetNames, parent_dir \in ParentDirs :
       LiteDownloadCorpus(target_name, parent_dir)
  \/ \E target_name \in TargetNames, parent_dir \in ParentDirs :
       LiteUploadCorpus(target_name, get_corpus_dir(target_name, parent_dir))
  \/ \E parent_dir \in ParentDirs :
       LiteUploadLatestBuild(get_build_dir(parent_dir))
  \/ OSSFuzzGetLatestBuildName
  \/ \E parent_dir \in ParentDirs : OSSFuzzDownloadLatestBuild(parent_dir)
  \/ \E parent_dir \in ParentDirs :
       OSSFuzzUploadLatestBuild(get_build_dir(parent_dir))
  \/ \E target_name \in TargetNames, parent_dir \in ParentDirs :
       OSSFuzzDownloadCorpus(target_name, parent_dir)
  \/ \E target_name \in TargetNames, parent_dir \in ParentDirs :
       OSSFuzzUploadCorpus(target_name, get_corpus_dir(target_name, parent_dir))

Spec == Init /\ [][Next]_vars

\* ------------------------------------------------------- claim vocabulary
Calls == 1..Len(call_log)
Remotes == 1..Len(remote_log)

\* The step appends one call of method op.
Stepped(op) ==
  /\ Len(call_log') = Len(call_log) + 1
  /\ call_log'[Len(call_log')].op = op

NewCall == call_log'[Len(call_log')]

\* The remote calls the step made.
NewRemote == SubSeq(remote_log', Len(remote_log) + 1, Len(remote_log'))

BuildFetchOps ==
  {"filestore.download_latest_build", "urlopen", "download_and_unpack_zip"}

\* C1: on one deployment, a download_latest_build call on a parent directory
\* that was already passed to download_latest_build makes no remote call and
\* returns get_build_dir(parent_dir); the one earlier call made each kind of
\* remote build fetch at most once.
C1_BuildFetchedAtMostOnce ==
  [][Stepped("download_latest_build") =>
       /\ \A op \in BuildFetchOps :
            Cardinality({k \in 1..Len(NewRemote) : NewRemote[k].op = op}) <= 1
       /\ (\E i \in Calls : /\ call_log[i].op = "download_latest_build"
                            /\ call_log[i].dir = NewCall.dir)
            => /\ remote_log' = remote_log
               /\ NewCall.outcome = "returned"
               /\ NewCall.value = StrV(get_build_dir(NewCall.dir))]_vars

\* Two download_latest_build calls on the same parent directory happened, and
\* one fetch into its build directory was made.
C1_Witness ==
  \E i, j \in Calls :
    /\ i < j
    /\ call_log[i].op = "download_latest_build"
    /\ call_log[j].op = "download_latest_build"
    /\ call_log[i].dir = call_log[j].dir
    /\ Cardinality({k \in Remotes :
         remote_log[k].dir = get_build_dir(call_log[i].dir)}) = 1

\* C2: a download_latest_build call returns the build directory only if a
\* fetch into that directory succeeded in this call or an earlier one; while
\* every fetch so far has failed (version file not found, or the filestore
\* or fetch-and-unpack reported failure) the call returns None and raises
\* nothing.
C2_PathOnlyAfterSuccessfulFetch ==
  (Len(call_log) > 0 /\ call_log[Len(call_log)].op = "download_latest_build")
    => LET c == call_log[Len(call_log)]
           fetched == \E k \in Remotes :
                        /\ remote_log[k].op \in BuildFetchOps
                        /\ remote_log[k].dir = get_build_dir(c.dir)
                        /\ remote_log[k].result = BoolV(TRUE)
           reported == \A k \in Remotes :
                         remote_log[k].op = "urlopen" =>
                           \/ remote_log[k].result = ExcV("HTTPError")
                           \/ /\ remote_log[k].result.tag = "bytes"
                              /\ decode(remote_log[k].result.s).outcome
                                   = "returned"
       IN /\ (c.outcome = "returned" /\ c.value.tag = "str") => fetched
          /\ (~fetched /\ reported) => (c.outcome = "returned" /\ c.value = NoneV)

\* C3: the factory returns OSSFuzz exactly for the platforms
\* INTERNAL_GENERIC_CI and INTERNAL_GITHUB, and ClusterFuzzLite for every
\* other platform.
C3_FactorySelectsByPlatform ==
  deployment # "none" =>
    IF config.platform \in {"INTERNAL_GENERIC_CI", "INTERNAL_GITHUB"}
    THEN deployment = "OSSFuzz"
    ELSE deployment = "ClusterFuzzLite"

\* The factory ran on a configuration with platform INTERNAL_GENERIC_CI.
C3_Witness ==
  /\ deployment = "OSSFuzz"
  /\ config.platform = "INTERNAL_GENERIC_CI"

\* C4: on both backends every upload_corpus call returns normally, whether
\* or not the underlying upload failed.
C4_UploadCorpusNeverRaises ==
  \A i \in Calls :
    call_log[i].op = "upload_corpus" => call_log[i].outcome = "returned"

\* C5: every OSSFuzz.download_corpus call returns
\* get_corpus_dir(target_name, parent_dir), and that directory exists,
\* whatever download_and_unpack_zip reported.
C5_OSSFuzzCorpusAlwaysReturnsDir ==
  \A i \in Calls :
    (deployment = "OSSFuzz" /\ call_log[i].op = "download_corpus")
      => /\ call_log[i].outcome = "returned"
         /\ call_log[i].value =
              StrV(get_corpus_dir(call_log[i].target, call_log[i].dir))
         /\ get_corpus_dir(call_log[i].target, call_log[i].dir) \in fs

\* An OSSFuzz.download_corpus call happened whose fetch reported failure.
C5_Witness ==
  /\ deployment = "OSSFuzz"
  /\ \E i \in Calls, k \in Remotes :
       /\ call_log[i].op = "download_corpus"
       /\ remote_log[k].op = "download_and_unpack_zip"
       /\ remote_log[k].dir =
            get_corpus_dir(call_log[i].target, call_log[i].dir)
       /\ remote_log[k].result = BoolV(FALSE)

\* C6: a ClusterFuzzLite.download_corpus call raises the error that
\* filestore.download_corpus raised, returns the corpus directory only when
\* the filestore call raised nothing, and has created the corpus directory
\* in both outcomes.
C6_LiteCorpusErrorPropagates ==
  [][(deployment = "ClusterFuzzLite" /\ Stepped("download_corpus")) =>
       LET corpus_dir == get_corpus_dir(NewCall.target, NewCall.dir) IN
       /\ Len(NewRemote) = 1
       /\ NewRemote[1].op = "filestore.download_corpus"
       /\ corpus_dir \in fs'
       /\ IF NewRemote[1].result = NoneV
          THEN /\ NewCall.outcome = "returned"
               /\ NewCall.value = StrV(corpus_dir)
          ELSE /\ NewCall.outcome = "raised"
               /\ NewCall.value = NewRemote[1].result]_vars

\* A ClusterFuzzLite.download_corpus call raised, and its corpus directory
\* exists.
C6_Witness ==
  /\ deployment = "ClusterFuzzLite"
  /\ \E i \in Calls :
       /\ call_log[i].op = "download_corpus"
       /\ call_log[i].outcome = "raised"
       /\ get_corpus_dir(call_log[i].target, call_log[i].dir) \in fs

\* C7: every OSSFuzz.upload_latest_build call raises, having made no remote
\* call and no change to the filesystem.
C7_OSSFuzzUploadBuildAlwaysRaises ==
  [][(deployment = "OSSFuzz" /\ Stepped("upload_latest_build")) =>
       /\ NewCall.outcome = "raised"
       /\ remote_log' = remote_log
       /\ fs' = fs]_vars

\* OSSFuzz.upload_latest_build was called after a build had been downloaded.
C7_Witness ==
  /\ deployment = "OSSFuzz"
  /\ \E i, j \in Calls :
       /\ i < j
       /\ call_log[i].op = "download_latest_build"
       /\ call_log[i].value.tag = "str"
       /\ call_log[j].op = "upload_latest_build"
       /\ call_log[j].dir = call_log[i].value.s

\* C8: the name OSSFuzz.download_corpus fetches for target t of project p is
\* t when t starts with p + '_' and p + '_' + t otherwise; qualifying it
\* again changes nothing, and it starts with p + '_'.
C8_QualifiedNameIdempotent ==
  \A i \in Calls :
    (deployment = "OSSFuzz" /\ call_log[i].op = "download_corpus") =>
      LET p == config.project_name
          t == call_log[i].target
          q == project_qualified_fuzz_target_name(p, t)
      IN /\ q = IF StartsWith(t, p \o <<"_">>) THEN t ELSE p \o <<"_">> \o t
         /\ project_qualified_fuzz_target_name(p, q) = q
         /\ StartsWith(q, p \o <<"_">>)
         /\ \E k \in Remotes :
              /\ remote_log[k].dir = get_corpus_dir(t, call_log[i].dir)
              /\ remote_log[k].name =
                   url_join(<<GCS_BASE_URL, BackupBucket(p), q,
                              CORPUS_ZIP_NAME>>)

\* OSSFuzz.download_corpus ran on a target that already carries the project
\* prefix, and on one that does not.
C8_Witness ==
  /\ deployment = "OSSFuzz"
  /\ \E i, j \in Calls :
       /\ call_log[i].op = "download_corpus"
       /\ call_log[j].op = "download_corpus"
       /\ StartsWith(call_log[i].target, config.project_name \o <<"_">>)
       /\ ~StartsWith(call_log[j].target, config.project_name \o <<"_">>)

CorpusFetches ==
  {k \in Remotes :
     \/ remote_log[k].op = "filestore.download_corpus"
     \/ /\ remote_log[k].op = "download_and_unpack_zip"
        /\ \E t \in TargetNames, d \in ParentDirs :
             remote_log[k].dir = get_corpus_dir(t, d)}

\* C9: every download_corpus call, on either backend, makes exactly one
\* remote corpus fetch into the corpus directory, also when that directory
\* already exists; the number of fetches equals the number of calls.
C9_CorpusAlwaysRefetched ==
  /\ [](Cardinality({i \in Calls : call_log[i].op = "download_corpus"})
          = Cardinality(CorpusFetches))
  /\ [][Stepped("download_corpus") =>
          /\ Len(NewRemote) = 1
          /\ NewRemote[1].op =
               IF deployment = "OSSFuzz" THEN "download_and_unpack_zip"
               ELSE "filestore.download_corpus"
          /\ NewRemote[1].dir = get_corpus_dir(NewCall.target, NewCall.dir)]_vars

\* download_corpus was called twice for the same target and parent
\* directory, and two fetches into its corpus directory were made.
C9_Witness ==
  \E i, j \in Calls :
    /\ i < j
    /\ call_log[i].op = "download_corpus"
    /\ call_log[j].op = "download_corpus"
    /\ call_log[i].target = call_log[j].target
    /\ call_log[i].dir = call_log[j].dir
    /\ Cardinality({k \in CorpusFetches :
         remote_log[k].dir =
           get_corpus_dir(call_log[i].target, call_log[i].dir)}) = 2

\* C10: an OSSFuzz.download_latest_build call on an absent build directory
\* invokes download_and_unpack_zip at most once, only after
\* get_latest_build_name returned a non-empty name, and with the URL
\* url_join(GCS_BASE_URL, 'clusterfuzz-builds', project_name, name); when
\* get_latest_build_name yields None or an empty name the call returns None
\* without invoking download_and_unpack_zip.
C10_UnpackOnlyAfterVersionResolved ==
  [][(/\ deployment = "OSSFuzz"
      /\ Stepped("download_latest_build")
      /\ get_build_dir(NewCall.dir) \notin fs) =>
       LET unpacks == {k \in 1..Len(NewRemote) :
                         NewRemote[k].op = "download_and_unpack_zip"}
           name == get_latest_build_name(NewRemote[1].result)
       IN /\ Cardinality(unpacks) <= 1
          /\ Len(NewRemote) >= 1
          /\ NewRemote[1].op = "urlopen"
          /\ IF /\ name.outcome = "returned"
                /\ name.value.tag = "str"
                /\ name.value.s # <<>>
             THEN /\ unpacks = {2}
                  /\ NewRemote[2].name =
                       url_join(<<GCS_BASE_URL, CLUSTERFUZZ_BUILDS,
                                  config.project_name, NewRemote[1].result.s>>)
                  /\ NewRemote[2].dir = get_build_dir(NewCall.dir)
             ELSE /\ unpacks = {}
                  /\ name.outcome = "returned" =>
                       /\ NewCall.outcome = "returned"
                       /\ NewCall.value = NoneV]_vars

\* OSSFuzz.download_latest_build resolved a build name and unpacked it.
C10_Witness ==
  /\ deployment = "OSSFuzz"
  /\ \E k \in Remotes :
       /\ k > 1
       /\ remote_log[k - 1].op = "urlopen"
       /\ remote_log[k - 1].result.tag = "bytes"
       /\ remote_log[k].op = "download_and_unpack_zip"
       /\ \E d \in ParentDirs : remote_log[k].dir = get_build_dir(d)
====
